---- MODULE Spec2Model ----
(***************************************************************************)
(* OCR4Linux: a model of the command-line orchestrator of OCR4Linux.py     *)
(* (Program.main and TesseractConfig.main, version 1.2.0) and of the       *)
(* layout reconstructor of the earlier generation of the tool.             *)
(*                                                                         *)
(* Python's sys.argv is 0-indexed and TLA+ sequences are 1-indexed:        *)
(* sys.argv[0], sys.argv[1], sys.argv[2] are argv[1], argv[2], argv[3].    *)
(***************************************************************************)
EXTENDS Integers, Sequences, FiniteSets, TLC

VARIABLES
    argv,            \* sys.argv
    fs,              \* the file system: path -> bytes on disk, or Absent
    fs0,             \* the file system before the invocation (history)
    pc,              \* the position in Program.main / TesseractConfig.main
    exit_code,       \* the value Program.main returned, NoCode before it returns
    stdout,          \* what print() has written, one message per element
    image,           \* the image handle: "none", "open" or "closed"
    file,            \* the output file handle: "none", "open" or "closed"
    extracted_text,  \* the local extracted_text, NoText before it is assigned
    buffered,        \* the bytes file.write() has accepted
    exc,             \* the exception in flight or caught, named by the operation
                     \* that raised it; "none" when there is none
    ioLog,           \* every file or engine operation performed, in order (history)
    recon            \* the state of the layout reconstructor

vars == <<argv, fs, fs0, pc, exit_code, stdout, image, file, extracted_text,
          buffered, exc, ioLog, recon>>

cliVars == <<argv, fs, fs0, pc, exit_code, stdout, image, file, extracted_text,
             buffered, exc, ioLog>>

----------------------------------------------------------------------------
(* Bounds *)

\* The longest text the engine returns, in characters.
MaxTextLen == 2

\* The longest token sequence handed to the reconstructor.
MaxTokens == 3

----------------------------------------------------------------------------
(* Sequences *)

SeqsUpTo(S, n) == UNION {[1..k -> S] : k \in 0..n}

Prefixes(s) == {SubSeq(s, 1, k) : k \in 0..Len(s)}

IsPrefix(p, s) == Len(p) <= Len(s) /\ SubSeq(s, 1, Len(p)) = p

RECURSIVE Flatten(_)
Flatten(ss) == IF ss = <<>> THEN <<>> ELSE Head(ss) \o Flatten(Tail(ss))

----------------------------------------------------------------------------
(* Program: arguments *)

\* Program.__init__: self.args_num = 3
args_num == 3

HelpFlags == {"-h", "--help"}

Paths == {"img.png", "out.txt", "-h", "--help"}

ArgVectors ==
    { <<"OCR4Linux.py">>,
      <<"OCR4Linux.py", "-h">>,
      <<"OCR4Linux.py", "--help">>,
      <<"OCR4Linux.py", "img.png">>,
      <<"OCR4Linux.py", "-h", "out.txt">>,
      <<"OCR4Linux.py", "--help", "out.txt">>,
      <<"OCR4Linux.py", "img.png", "out.txt">>,
      <<"OCR4Linux.py", "img.png", "img.png">>,
      <<"OCR4Linux.py", "img.png", "-h">>,
      <<"OCR4Linux.py", "img.png", "out.txt", "extra">> }

----------------------------------------------------------------------------
(* Text and its UTF-8 encoding *)

Chars == {"a", "e'", "\n"}

\* Mutation: the output file is opened with encoding='latin-1'.
EncodeChar_Latin1(c) ==
    IF c = "a" THEN <<97>> ELSE IF c = "\n" THEN <<10>> ELSE <<233>>

\* The UTF-8 bytes of one character: "a" is U+0061, "e'" stands for U+00E9.
\* The file is opened in text mode with the default newline handling, which
\* writes "\n" as os.linesep: one byte 10 on Linux.
EncodeChar(c) ==
    IF c = "a" THEN <<97>> ELSE IF c = "\n" THEN <<10>> ELSE <<195, 169>>

\* str.encode('utf-8'), as open(..., encoding='utf-8') applies it in write()
Encode(text) == Flatten([k \in 1..Len(text) |-> EncodeChar(text[k])])

Texts == SeqsUpTo(Chars, MaxTextLen)

----------------------------------------------------------------------------
(* The file system *)

\* No file at the path: not a byte sequence.
Absent == <<-1>>

\* exit_code holds <<>> until Program.main returns n, and then <<n>>.
NoCode == <<>>

\* extracted_text before its assignment: not a text.
NoText == <<"unassigned">>

ImageBytes == <<137, 80>>
OldContent == <<111, 108, 100>>

InitialFileSystems ==
    { f \in [Paths -> {Absent, ImageBytes, OldContent}] :
        /\ f["img.png"] \in {Absent, ImageBytes}
        /\ f["out.txt"] \in {Absent, OldContent}
        /\ f["-h"] \in {Absent, ImageBytes}
        /\ f["--help"] = Absent }

\* os.path.exists
exists(path) == fs[path] # Absent

IdleRecon == [rpc |-> "idle"]

Event(op, ok) == [op |-> op, ok |-> ok]

----------------------------------------------------------------------------
(* Program.main and TesseractConfig.main *)

Init ==
    /\ argv \in ArgVectors
    /\ fs \in InitialFileSystems
    /\ fs0 = fs
    /\ pc = "check_arguments"
    /\ exit_code = NoCode
    /\ stdout = <<>>
    /\ image = "none"
    /\ file = "none"
    /\ extracted_text = NoText
    /\ buffered = <<>>
    /\ exc = "none"
    /\ ioLog = <<>>
    /\ recon = IdleRecon

\* Mutation: check_arguments tests the argument count alone.
CheckArguments_CountOnly ==
    /\ pc = "check_arguments"
    /\ IF Len(argv) # args_num
       THEN /\ stdout' = Append(stdout, <<"help">>)
            /\ exit_code' = <<1>>
            /\ pc' = "done"
       ELSE /\ pc' = "check_image_path"
            /\ UNCHANGED <<stdout, exit_code>>
    /\ UNCHANGED <<argv, fs, fs0, image, file, extracted_text, buffered, exc,
                   ioLog, recon>>

\* Program.check_arguments, and Program.main's return 1 when it is False
CheckArguments ==
    /\ pc = "check_arguments"
    /\ IF Len(argv) # args_num \/ argv[2] \in HelpFlags
       THEN /\ stdout' = Append(stdout, <<"help">>)
            /\ exit_code' = <<1>>
            /\ pc' = "done"
       ELSE /\ pc' = "check_image_path"
            /\ UNCHANGED <<stdout, exit_code>>
    /\ UNCHANGED <<argv, fs, fs0, image, file, extracted_text, buffered, exc,
                   ioLog, recon>>

\* Mutation: Program.main ignores what check_image_path returns.
CheckImagePath_NoReturn ==
    /\ pc = "check_image_path"
    /\ ioLog' = Append(ioLog, Event("exists", TRUE))
    /\ stdout' = IF ~exists(argv[2])
                 THEN Append(stdout, <<"not found", argv[2]>>)
                 ELSE stdout
    /\ pc' = "image_open"
    /\ UNCHANGED <<argv, fs, fs0, exit_code, image, file, extracted_text,
                   buffered, exc, recon>>

\* Program.check_image_path(sys.argv[1]), and Program.main's return 1
CheckImagePath ==
    /\ pc = "check_image_path"
    /\ ioLog' = Append(ioLog, Event("exists", TRUE))
    /\ IF ~exists(argv[2])
       THEN /\ stdout' = Append(stdout, <<"not found", argv[2]>>)
            /\ exit_code' = <<1>>
            /\ pc' = "done"
       ELSE /\ pc' = "image_open"
            /\ UNCHANGED <<stdout, exit_code>>
    /\ UNCHANGED <<argv, fs, fs0, image, file, extracted_text, buffered, exc,
                   recon>>

\* Mutation: the output file is opened together with the image, before the
\* engine call.
ImageOpen_OpensOutput ==
    /\ pc = "image_open"
    /\ \/ /\ exists(argv[2])
          /\ image' = "open"
          /\ fs' = [fs EXCEPT ![argv[3]] = <<>>]
          /\ ioLog' = Append(Append(ioLog, Event("image_open", TRUE)),
                             Event("out_open", TRUE))
          /\ pc' = "extract"
          /\ exc' = exc
       \/ /\ image' = image
          /\ fs' = fs
          /\ ioLog' = Append(ioLog, Event("image_open", FALSE))
          /\ exc' = "image_open"
          /\ pc' = "except"
    /\ UNCHANGED <<argv, fs0, exit_code, stdout, file, extracted_text,
                   buffered, recon>>

\* with Image.open(self.image_path) as image: returns a handle, or raises
\* (always when there is no file at the path)
ImageOpen ==
    /\ pc = "image_open"
    /\ \/ /\ exists(argv[2])
          /\ image' = "open"
          /\ ioLog' = Append(ioLog, Event("image_open", TRUE))
          /\ pc' = "extract"
          /\ exc' = exc
       \/ /\ image' = image
          /\ ioLog' = Append(ioLog, Event("image_open", FALSE))
          /\ exc' = "image_open"
          /\ pc' = "except"
    /\ UNCHANGED <<argv, fs, fs0, exit_code, stdout, file, extracted_text,
                   buffered, recon>>

\* Mutation: a failed engine call is tried once more.
ExtractText_Retry ==
    /\ pc = "extract"
    /\ \/ \E text \in Texts :
            /\ extracted_text' = text
            /\ ioLog' = Append(ioLog, Event("engine", TRUE))
            /\ pc' = "out_open"
            /\ exc' = exc
       \/ /\ extracted_text' = extracted_text
          /\ ioLog' = Append(ioLog, Event("engine", FALSE))
          /\ IF \E k \in 1..Len(ioLog) : ioLog[k].op = "engine"
             THEN exc' = "engine" /\ pc' = "image_exit"
             ELSE exc' = exc /\ pc' = "extract"
    /\ UNCHANGED <<argv, fs, fs0, exit_code, stdout, image, file, buffered,
                   recon>>

\* extracted_text = self.extract_text_with_lines(image): one engine call,
\* which returns a text or raises
ExtractText ==
    /\ pc = "extract"
    /\ \/ \E text \in Texts :
            /\ extracted_text' = text
            /\ ioLog' = Append(ioLog, Event("engine", TRUE))
            /\ pc' = "out_open"
            /\ exc' = exc
       \/ /\ extracted_text' = extracted_text
          /\ ioLog' = Append(ioLog, Event("engine", FALSE))
          /\ exc' = "engine"
          /\ pc' = "image_exit"
    /\ UNCHANGED <<argv, fs, fs0, exit_code, stdout, image, file, buffered,
                   recon>>

\* with open(self.output_path, 'w', encoding='utf-8') as file: creates or
\* truncates the file, or raises and leaves it as it was
OutOpen ==
    /\ pc = "out_open"
    /\ \/ /\ fs' = [fs EXCEPT ![argv[3]] = <<>>]
          /\ file' = "open"
          /\ ioLog' = Append(ioLog, Event("out_open", TRUE))
          /\ pc' = "write"
          /\ exc' = exc
       \/ /\ UNCHANGED <<fs, file>>
          /\ ioLog' = Append(ioLog, Event("out_open", FALSE))
          /\ exc' = "out_open"
          /\ pc' = "image_exit"
    /\ UNCHANGED <<argv, fs0, exit_code, stdout, image, extracted_text,
                   buffered, recon>>

\* file.write(extracted_text): the text is encoded and buffered, and any
\* prefix of the buffer may reach the disk; a failing write leaves a prefix
FileWrite ==
    /\ pc = "write"
    /\ \/ \E flushed \in Prefixes(Encode(extracted_text)) :
            /\ buffered' = Encode(extracted_text)
            /\ fs' = [fs EXCEPT ![argv[3]] = flushed]
            /\ ioLog' = Append(ioLog, Event("write", TRUE))
            /\ exc' = exc
       \/ \E flushed \in Prefixes(Encode(extracted_text)) :
            /\ buffered' = flushed
            /\ fs' = [fs EXCEPT ![argv[3]] = flushed]
            /\ ioLog' = Append(ioLog, Event("write", FALSE))
            /\ exc' = "write"
    /\ pc' = "out_exit"
    /\ UNCHANGED <<argv, fs0, exit_code, stdout, image, file, extracted_text,
                   recon>>

\* The end of the inner with block: file.close() flushes the buffer and
\* releases the handle, also when the flush fails or an exception is in flight
OutExit ==
    /\ pc = "out_exit"
    /\ file' = "closed"
    /\ \/ /\ fs' = [fs EXCEPT ![argv[3]] = buffered]
          /\ ioLog' = Append(ioLog, Event("out_close", TRUE))
          /\ exc' = exc
       \/ \E flushed \in Prefixes(buffered) :
            /\ IsPrefix(fs[argv[3]], flushed)
            /\ fs' = [fs EXCEPT ![argv[3]] = flushed]
            /\ ioLog' = Append(ioLog, Event("out_close", FALSE))
            /\ exc' = "out_close"
    /\ pc' = "image_exit"
    /\ UNCHANGED <<argv, fs0, exit_code, stdout, image, extracted_text,
                   buffered, recon>>

\* Mutation: image.close() is a statement after the write, not the end of a
\* with block, so an exception skips it.
ImageExit_NoWith ==
    /\ pc = "image_exit"
    /\ image' = IF exc = "none" THEN "closed" ELSE image
    /\ ioLog' = IF exc = "none"
                THEN Append(ioLog, Event("image_close", TRUE))
                ELSE ioLog
    /\ pc' = IF exc = "none" THEN "return" ELSE "except"
    /\ UNCHANGED <<argv, fs, fs0, exit_code, stdout, file, extracted_text,
                   buffered, exc, recon>>

\* The end of the outer with block: image.close(), on return 0 and on an
\* exception alike
ImageExit ==
    /\ pc = "image_exit"
    /\ image' = "closed"
    /\ ioLog' = Append(ioLog, Event("image_close", TRUE))
    /\ pc' = IF exc = "none" THEN "return" ELSE "except"
    /\ UNCHANGED <<argv, fs, fs0, exit_code, stdout, file, extracted_text,
                   buffered, exc, recon>>

\* return 0, passed on by Program.main
Return ==
    /\ pc = "return"
    /\ exit_code' = <<0>>
    /\ pc' = "done"
    /\ UNCHANGED <<argv, fs, fs0, stdout, image, file, extracted_text,
                   buffered, exc, ioLog, recon>>

\* Mutation: the handler prints the error and falls through to a return 0.
Except_Returns0 ==
    /\ pc = "except"
    /\ stdout' = Append(stdout, <<"Error processing image because: ", exc>>)
    /\ exit_code' = <<0>>
    /\ pc' = "done"
    /\ UNCHANGED <<argv, fs, fs0, image, file, extracted_text, buffered, exc,
                   ioLog, recon>>

\* Mutation: the handler is "except OSError", which an engine error is not:
\* it propagates out of Program.main.
Except_OnlyOSError ==
    /\ pc = "except"
    /\ IF exc = "engine"
       THEN /\ pc' = "raised"
            /\ UNCHANGED <<stdout, exit_code>>
       ELSE /\ stdout' = Append(stdout,
                                <<"Error processing image because: ", exc>>)
            /\ exit_code' = <<1>>
            /\ pc' = "done"
    /\ UNCHANGED <<argv, fs, fs0, image, file, extracted_text, buffered, exc,
                   ioLog, recon>>

\* except Exception as e: print(...str(e)); return 1
Except ==
    /\ pc = "except"
    /\ stdout' = Append(stdout, <<"Error processing image because: ", exc>>)
    /\ exit_code' = <<1>>
    /\ pc' = "done"
    /\ UNCHANGED <<argv, fs, fs0, image, file, extracted_text, buffered, exc,
                   ioLog, recon>>

Next ==
    \/ CheckArguments
    \/ CheckImagePath
    \/ ImageOpen
    \/ ExtractText
    \/ OutOpen
    \/ FileWrite
    \/ OutExit
    \/ ImageExit
    \/ Return
    \/ Except

Spec == Init /\ [][Next]_vars

\* The program is one sequential thread: a step that can be taken is taken.
FairSpec == Spec /\ WF_vars(Next)

----------------------------------------------------------------------------
(* The layout reconstructor: reconstruct(tokens, confidence_threshold) *)

\* OCRConfig: confidence threshold, default 60
confidence_threshold == 60

Whitespace == {" "}

\* The text of a token: a word, or a blank.
TokenTexts == {<<"a">>, <<"b">>, <<" ">>}

\* (page, block, paragraph, line); the first key is the numerically larger.
LineKeys == {<<1, 2, 1, 1>>, <<1, 1, 1, 2>>}

Confidences == {confidence_threshold, confidence_threshold + 1}

Tokens == [text : TokenTexts, conf : Confidences, key : LineKeys]

TokenSequences == SeqsUpTo(Tokens, MaxTokens)

\* sep.join(parts)
RECURSIVE Join(_, _)
Join(parts, sep) ==
    IF parts = <<>> THEN <<>>
    ELSE IF Len(parts) = 1 THEN parts[1]
    ELSE parts[1] \o sep \o Join(Tail(parts), sep)

RECURSIVE LStrip(_)
LStrip(s) ==
    IF s # <<>> /\ s[1] \in Whitespace THEN LStrip(Tail(s)) ELSE s

RECURSIVE RStrip(_)
RStrip(s) ==
    IF s # <<>> /\ s[Len(s)] \in Whitespace
    THEN RStrip(SubSeq(s, 1, Len(s) - 1))
    ELSE s

\* Trim leading and trailing whitespace.
Strip(s) == RStrip(LStrip(s))

\* Mutation: a token at exactly the threshold is kept.
KeepToken_Inclusive(t) == t.conf >= confidence_threshold

\* Step 2: a token survives when its confidence is above the threshold.
KeepToken(t) == t.conf > confidence_threshold

\* Step 4: each Line in first-seen order, joined with single spaces and
\* trimmed; a Line that trims to nothing is skipped.
EmittedLines(keys, lines) ==
    SelectSeq([k \in 1..Len(keys) |-> Strip(Join(lines[keys[k]], <<" ">>))],
              LAMBDA l : l # <<>>)

\* k1 before k2 in the numeric order of the key fields
KeyLess(k1, k2) ==
    \E n \in 1..4 : k1[n] < k2[n] /\ \A m \in 1..(n - 1) : k1[m] = k2[m]

RECURSIVE SortKeys(_)
SortKeys(S) ==
    IF S = {} THEN <<>>
    ELSE LET least == CHOOSE k \in S : \A o \in S \ {k} : KeyLess(k, o)
         IN <<least>> \o SortKeys(S \ {least})

\* Mutation: the Lines are rendered in the sorted order of their keys.
RenderOutput_Sorted(keys, lines) ==
    Join(EmittedLines(SortKeys({keys[k] : k \in 1..Len(keys)}), lines),
         <<"\n">>)

\* Steps 4 and 5: the emitted lines joined with single newlines.
RenderOutput(keys, lines) == Join(EmittedLines(keys, lines), <<"\n">>)

InitRecon(tokens) ==
    [rpc |-> "scan", tokens |-> tokens, i |-> 1, keys |-> <<>>,
     lines |-> <<>>, output |-> NoText]

\* The orchestrator is not running while the reconstructor is examined.
InitR ==
    /\ argv = <<"OCR4Linux.py">>
    /\ fs = [p \in Paths |-> Absent]
    /\ fs0 = fs
    /\ pc = "idle"
    /\ exit_code = NoCode
    /\ stdout = <<>>
    /\ image = "none"
    /\ file = "none"
    /\ extracted_text = NoText
    /\ buffered = <<>>
    /\ exc = "none"
    /\ ioLog = <<>>
    /\ \E tokens \in TokenSequences : recon = InitRecon(tokens)

\* Steps 1 to 3, for the next token of the scan: discard it, or append its
\* text to the Line of its key, opening the Line when the key is new.
ScanToken ==
    /\ recon.rpc = "scan"
    /\ recon.i <= Len(recon.tokens)
    /\ LET t == recon.tokens[recon.i]
           seen == t.key \in {recon.keys[k] : k \in 1..Len(recon.keys)}
       IN  recon' =
             IF ~KeepToken(t)
             THEN [recon EXCEPT !.i = @ + 1]
             ELSE IF seen
             THEN [recon EXCEPT !.i = @ + 1,
                                !.lines[t.key] = Append(@, t.text)]
             ELSE [recon EXCEPT !.i = @ + 1,
                                !.keys = Append(@, t.key),
                                !.lines = [k \in DOMAIN @ \cup {t.key} |->
                                             IF k = t.key THEN <<t.text>>
                                             ELSE @[k]]]
    /\ UNCHANGED cliVars

\* Steps 4 and 5, after the last token.
Render ==
    /\ recon.rpc = "scan"
    /\ recon.i > Len(recon.tokens)
    /\ recon' = [recon EXCEPT !.rpc = "done",
                              !.output = RenderOutput(recon.keys, recon.lines)]
    /\ UNCHANGED cliVars

NextR == ScanToken \/ Render

SpecR == InitR /\ [][NextR]_vars

----------------------------------------------------------------------------
(* Reading the reconstructor's output *)

\* s.split(c): the pieces of s between the occurrences of character c
RECURSIVE Split(_, _)
Split(s, c) ==
    IF \A k \in 1..Len(s) : s[k] # c THEN <<s>>
    ELSE LET first == CHOOSE k \in 1..Len(s) :
                        s[k] = c /\ \A m \in 1..(k - 1) : s[m] # c
         IN <<SubSeq(s, 1, first - 1)>>
            \o Split(SubSeq(s, first + 1, Len(s)), c)

\* The lines of an output text: none for the empty text.
OutputLines(out) == IF out = <<>> THEN <<>> ELSE Split(out, "\n")

\* The words of a line: its maximal runs of non-blank characters.
Words(line) == SelectSeq(Split(line, " "), LAMBDA w : w # <<>>)

\* The words of every output line, line by line.
OutputWords == [k \in 1..Len(OutputLines(recon.output)) |->
                  Words(OutputLines(recon.output)[k])]

NonBlank(text) == \E k \in 1..Len(text) : text[k] \notin Whitespace

Survives(t) == t.conf > confidence_threshold

Count(seq, x) == Cardinality({k \in 1..Len(seq) : seq[k] = x})

\* The texts of the non-blank surviving tokens with the key, in scan order.
WordsOfKey(toks, key) ==
    LET sel == SelectSeq(toks, LAMBDA t :
                   t.key = key /\ Survives(t) /\ NonBlank(t.text))
    IN [j \in 1..Len(sel) |-> sel[j].text]

\* The distinct keys of a token sequence in the order of first appearance.
RECURSIVE FirstSeen(_, _)
FirstSeen(toks, acc) ==
    IF toks = <<>> THEN acc
    ELSE LET key == Head(toks).key
         IN FirstSeen(Tail(toks),
                      IF \E k \in 1..Len(acc) : acc[k] = key
                      THEN acc ELSE Append(acc, key))

\* The lines expected for the keys in the given order: a key without a
\* non-blank surviving token gives no line.
ExpectedLines(toks, order) ==
    SelectSeq([k \in 1..Len(order) |-> WordsOfKey(toks, order[k])],
              LAMBDA ws : ws # <<>>)

----------------------------------------------------------------------------
(* Claims about the layout reconstructor *)

\* C8 as stated: every token with confidence above the threshold appears in
\* exactly one output line (its text is one word of the output, once per
\* such token), and a token at or below the threshold never appears.
C8_Original ==
    recon.rpc = "done" =>
        \A text \in TokenTexts :
            Count(Flatten(OutputWords), text)
              = Cardinality({i \in 1..Len(recon.tokens) :
                               /\ recon.tokens[i].text = text
                               /\ Survives(recon.tokens[i])})

\* C8, amended: every token with confidence above the threshold and a
\* non-blank text appears in exactly one output line; a token at or below
\* the threshold never appears; a blank token gives no word, and there are as
\* many output lines as keys with a non-blank surviving token, none empty.
C8_SurvivorsAppearOnce ==
    recon.rpc = "done" =>
        /\ \A text \in TokenTexts :
              Count(Flatten(OutputWords), text)
                = Cardinality({i \in 1..Len(recon.tokens) :
                                 /\ recon.tokens[i].text = text
                                 /\ NonBlank(text)
                                 /\ Survives(recon.tokens[i])})
        /\ \A k \in 1..Len(OutputWords) :
              /\ OutputWords[k] # <<>>
              /\ \A j \in 1..Len(OutputWords[k]) :
                    OutputWords[k][j] \in TokenTexts
        /\ Len(OutputWords)
             = Cardinality({key \in LineKeys :
                              WordsOfKey(recon.tokens, key) # <<>>})

\* A token at the threshold is dropped, a word and a blank survive.
C8_Witness ==
    /\ recon.rpc = "done"
    /\ \E i, j, k \in 1..Len(recon.tokens) :
          /\ recon.tokens[i].conf = confidence_threshold
          /\ recon.tokens[i].text = <<"b">>
          /\ Survives(recon.tokens[j])
          /\ recon.tokens[j].text = <<"a">>
          /\ Survives(recon.tokens[k])
          /\ recon.tokens[k].text = <<" ">>
    /\ recon.output = <<"a">>

\* C9 as stated: the output lines are in the order in which each LineKey
\* is first seen in the input token sequence.
C9_Original ==
    recon.rpc = "done" =>
        OutputWords
          = ExpectedLines(recon.tokens, FirstSeen(recon.tokens, <<>>))

\* C9, amended: the output lines are in the order in which each LineKey is
\* first seen among the tokens with confidence above the threshold, whatever
\* the numeric order of the keys.
C9_FirstSeenOrder ==
    recon.rpc = "done" =>
        OutputWords
          = ExpectedLines(recon.tokens,
                          FirstSeen(SelectSeq(recon.tokens, Survives), <<>>))

\* Two lines come out, the numerically larger key first.
C9_Witness ==
    /\ recon.rpc = "done"
    /\ Len(OutputLines(recon.output)) = 2
    /\ recon.keys = << <<1, 2, 1, 1>>, <<1, 1, 1, 2>> >>
    /\ Len(recon.tokens) = 3

----------------------------------------------------------------------------
(* What an invocation did, read off its history *)

HasEvent(op) == \E k \in 1..Len(ioLog) : ioLog[k].op = op

Succeeded(op) == \E k \in 1..Len(ioLog) : ioLog[k] = Event(op, TRUE)

Failed(op) == \E k \in 1..Len(ioLog) : ioLog[k] = Event(op, FALSE)

\* The argument count is wrong, or the first argument is a help flag.
UsageError ==
    \/ Len(argv) - 1 # 2
    \/ argv[2] = "-h"
    \/ argv[2] = "--help"

\* The arguments are usable and there was no file at image_path.
MissingImage == ~UsageError /\ fs0[argv[2]] = Absent

\* Some file or engine operation raised.
ProcessingFailure == \E k \in 1..Len(ioLog) : ~ioLog[k].ok

\* The output file, before and after.
OutputUntouched == fs = fs0 /\ ~HasEvent("out_open")

\* Reading bytes back as UTF-8 (invalid bytes become "?").
RECURSIVE Utf8Decode(_)
Utf8Decode(bytes) ==
    IF bytes = <<>> THEN <<>>
    ELSE IF bytes[1] = 97 THEN <<"a">> \o Utf8Decode(Tail(bytes))
    ELSE IF bytes[1] = 10 THEN <<"\n">> \o Utf8Decode(Tail(bytes))
    ELSE IF Len(bytes) >= 2 /\ bytes[1] = 195 /\ bytes[2] = 169
         THEN <<"e'">> \o Utf8Decode(SubSeq(bytes, 3, Len(bytes)))
    ELSE <<"?">> \o Utf8Decode(Tail(bytes))

\* The order of the steps of an invocation.
Rank(op) ==
    CASE op = "exists" -> 1
      [] op = "image_open" -> 2
      [] op = "engine" -> 3
      [] op = "out_open" -> 4
      [] op = "write" -> 5
      [] op = "out_close" -> 6
      [] op = "image_close" -> 7

----------------------------------------------------------------------------
(* Claims about the orchestrator *)

\* C1: every invocation terminates, and the exit code it returns is 1 for a
\* usage error, a missing image file or a processing failure (an operation
\* that raised), and 0 otherwise; no other value is returned.
C1_TerminatesWithExitCode ==
    /\ <>(pc = "done")
    /\ [](pc = "done" =>
            exit_code = IF UsageError \/ MissingImage \/ ProcessingFailure
                        THEN <<1>> ELSE <<0>>)
    /\ [](pc # "done" => exit_code = NoCode)
    /\ [](pc # "raised")

C1_Witness ==
    /\ pc = "done"
    /\ exit_code = <<1>>
    /\ Failed("out_close")
    /\ ~Failed("write")

\* C2: with a wrong argument count, or a help flag as first argument, the
\* invocation prints the help text and returns 1, and performs no file I/O:
\* no existence check, no image open, no engine call, no open or write of
\* the output file.
C2_UsageErrorNoIO ==
    UsageError =>
        /\ ioLog = <<>>
        /\ fs = fs0
        /\ image = "none"
        /\ file = "none"
        /\ pc \in {"check_arguments", "done"}
        /\ pc = "done" => stdout = << <<"help">> >> /\ exit_code = <<1>>

\* The help flag names a file that exists, and an output path follows it.
C2_Witness ==
    /\ pc = "done"
    /\ Len(argv) = 3
    /\ argv[2] = "-h"
    /\ fs0["-h"] # Absent
    /\ exit_code = <<1>>

\* C3: with usable arguments and no file at image_path, the invocation
\* prints an error naming the path and returns 1, the engine is never
\* invoked, and the output file is untouched: never opened, its content the
\* content it had before.
C3_MissingImage ==
    MissingImage =>
        /\ ~HasEvent("engine")
        /\ OutputUntouched
        /\ file = "none"
        /\ pc = "done" =>
              /\ stdout = << <<"not found", argv[2]>> >>
              /\ exit_code = <<1>>

C3_Witness ==
    /\ pc = "done"
    /\ MissingImage
    /\ fs0[argv[3]] = OldContent
    /\ fs[argv[3]] = OldContent

\* C4: an exception raised by the image open, the engine call, or the open,
\* write or close of the output file is caught: it never leaves
\* Program.main, a message referencing it is printed, and the exit code is 1,
\* never 0.
C4_ExceptionsCaught ==
    /\ pc # "raised"
    /\ exc # "none" => Failed(exc)
    /\ ProcessingFailure => exc # "none" /\ exit_code # <<0>>
    /\ (pc = "done" /\ ProcessingFailure) =>
          /\ exit_code = <<1>>
          /\ stdout = << <<"Error processing image because: ", exc>> >>

C4_Witness ==
    /\ pc = "done"
    /\ Failed("engine")
    /\ exit_code = <<1>>

\* C5: when the exit code is 0 the output file exists, the write and the
\* close completed, and the file's content, read back as UTF-8, is exactly
\* the text the engine returned: nothing of the old content is left.
C5_OutputIsEngineText ==
    (pc = "done" /\ exit_code = <<0>>) =>
        /\ Succeeded("engine")
        /\ Succeeded("write")
        /\ Succeeded("out_close")
        /\ fs[argv[3]] # Absent
        /\ Utf8Decode(fs[argv[3]]) = extracted_text

\* An old output file is replaced by a text with a non-ASCII character.
C5_Witness ==
    /\ pc = "done"
    /\ exit_code = <<0>>
    /\ fs0[argv[3]] = OldContent
    /\ \E k \in 1..Len(extracted_text) : extracted_text[k] = "e'"

\* C6: when the exit code is returned no handle is open: the image handle
\* and the output file handle are closed if they were opened, on the success
\* path and on every failure path.
C6_HandlesClosed ==
    pc \in {"return", "except", "done"} =>
        /\ image = IF Succeeded("image_open") THEN "closed" ELSE "none"
        /\ file = IF Succeeded("out_open") THEN "closed" ELSE "none"

\* A write failure with both handles opened.
C6_Witness ==
    /\ pc = "done"
    /\ exit_code = <<1>>
    /\ Failed("write")
    /\ image = "closed"
    /\ file = "closed"

\* C7: the engine is called at most once; when the call raises, the
\* invocation goes to the failure exit: no second call, no output file
\* opened, exit code 1.
C7_EngineOnceNoRetry ==
    /\ Cardinality({k \in 1..Len(ioLog) : ioLog[k].op = "engine"}) <= 1
    /\ Failed("engine") =>
          /\ pc \in {"image_exit", "except", "done"}
          /\ exc = "engine"
          /\ ~Succeeded("engine")
          /\ ~HasEvent("out_open")
          /\ pc = "done" => exit_code = <<1>>

C7_Witness ==
    /\ pc = "done"
    /\ Failed("engine")
    /\ ioLog[Len(ioLog)] = Event("image_close", TRUE)

\* C10: the steps run in the order existence check, image open, engine
\* call, output open, output write (and the closes); the output file is
\* opened only after the engine call returned; when the image open or the
\* engine call raises the output file is untouched; an exit code 1 with a
\* changed output file comes only from a failed open, write or close of it.
C10_StepOrder ==
    /\ \A i, j \in 1..Len(ioLog) :
          i < j => Rank(ioLog[i].op) < Rank(ioLog[j].op)
    /\ \A j \in 1..Len(ioLog) :
          ioLog[j].op = "out_open" =>
              \E i \in 1..(j - 1) : ioLog[i] = Event("engine", TRUE)
    /\ (Failed("image_open") \/ Failed("engine")) => OutputUntouched
    /\ (pc = "done" /\ exit_code = <<1>> /\ fs # fs0) =>
          Failed("out_open") \/ Failed("write") \/ Failed("out_close")

\* The old output file was truncated and the invocation failed.
C10_Witness ==
    /\ pc = "done"
    /\ exit_code = <<1>>
    /\ ~UsageError
    /\ fs0[argv[3]] = OldContent
    /\ fs[argv[3]] = <<>>

====
